---------------------------- MODULE Spec2Model ----------------------------
(***************************************************************************)
(* TCP string-lookup server: the Searcher engine (search.py) and the      *)
(* per-connection session loop TCPServer.handle_client (server.py).       *)
(*                                                                         *)
(* Text is a sequence of code points, a byte string a sequence of byte    *)
(* values.  Six specifications share the module:                         *)
(*   SearchSpec - a Searcher is constructed on a file and searched, the   *)
(*                file being rewritten in between;                        *)
(*   SslSpec    - create_ssl_context is called;                           *)
(*   Spec       - sessions of a running server exchange frames with       *)
(*                their peers;                                             *)
(*   StartSpec  - a server is constructed, binds, accepts and dispatches  *)
(*                connections, and shuts down;                            *)
(*   CleanupSpec - cleanup is called on a server whose live-connection    *)
(*                set holds connections;                                  *)
(*   FrameSpec  - sessions handle one frame each, the frames differing    *)
(*                in their whitespace.                                    *)
(***************************************************************************)
EXTENDS Integers, Sequences, FiniteSets, TLC

VARIABLES
    \* --- dataset and engine (search.py) ---
    file,               \* the backing file: [state, bytes]
    args,               \* constructor arguments of the Searcher
    spc,                \* "new" | "ready" | "searched" | "failed" (constructor raised)
    searcher,           \* the Searcher object's fields
    query,              \* argument of the last search() call
    result,             \* outcome of the last search() call
    loaded,             \* the file as it was when the Searcher was constructed (history)
    \* --- server (server.py) ---
    config,             \* [reread_on_query, ssl_enabled, max_workers, absent, max_allowed_time_ms]
    shutdown_flag,
    active_connections,
    connection_stats,   \* address -> [count, total_time] of the recorded queries
    pc,                 \* per connection: position of handle_client
    peer,               \* per connection: "open" | "closed" | "reset" | "tlserr"
    inflight,           \* per connection: bytes written by the peer, not yet received
    sent,               \* number of bytes the peers have written so far
    buffer,             \* per connection: handle_client's local buffer
    query_part,         \* per connection: the frame cut off the buffer
    response,           \* per connection: the verdict about to be written
    writes,             \* per connection: the payloads of the sendall calls
    closeCalls,         \* per connection: number of conn.close() calls
    exit,               \* per connection: how the loop was left
    rcvd,               \* per connection: every byte recv has returned (history)
    extracted,          \* per connection: number of frames cut off the buffer (history)
    split,              \* per connection: the last frame was completed from buffered bytes (history)
    waited,             \* per connection: a read timed out on a partial frame (history)
    warnings,           \* per connection: number of slow-query warnings logged
    \* --- TLS context (ssl_utils.py) and the main thread (server.py: start, cleanup) ---
    tls,                \* certificate, key and CA files and the clock, as create_ssl_context finds them
    ctx,                \* outcome of the last create_ssl_context call
    mpc,                \* position of the main thread
    listener,           \* the listening socket: "none" | "listening" | "closed"
    cleanups,           \* number of completed cleanup() runs
    connOpen,           \* per connection: the connection's descriptor is open
    peerCert,           \* per connection: the certificate the peer presents in a handshake
    handshake,          \* per connection: how wrap_socket ended in the acceptor (history)
    lock,               \* holder of self.lock: "free" | "main"
    reports             \* number of times cleanup has logged the statistics

searchVars == <<file, args, spc, searcher, query, result, loaded>>
serverVars == <<config, shutdown_flag, active_connections, connection_stats,
                pc, peer, inflight, sent, buffer, query_part, response,
                writes, closeCalls, exit, rcvd, extracted, split, waited, warnings>>
startVars == <<tls, ctx, mpc, listener, cleanups, connOpen, peerCert, handshake, lock, reports>>
vars == <<file, args, spc, searcher, query, result, loaded,
          config, shutdown_flag, active_connections, connection_stats,
          pc, peer, inflight, sent, buffer, query_part, response,
          writes, closeCalls, exit, rcvd, extracted, split, waited, warnings,
          tls, ctx, mpc, listener, cleanups, connOpen, peerCert, handshake, lock, reports>>

---------------------------------------------------------------------------
(* Bounds *)
MaxFileLen == 3         \* bytes in a dataset file of SearchSpec
MaxQueryLen == 2        \* code points in a query of SearchSpec
NumConns == 2           \* connections of Spec
MaxBytes == 3           \* bytes all peers together write in Spec
MaxRewriteLen == 1      \* bytes in a file written while a Searcher exists
MaxTime == 2            \* the clock and the certificate dates range over 0..MaxTime
StartBytes == 1         \* bytes all peers together write in StartSpec
MaxAllowedTimeMs == 1   \* the configured latency ceiling, in the unit of DurationOf
MaxFrameLen == 2        \* bytes in a frame of FrameSpec

(* Characters: the frame terminator, "\n" and "\r"; 32 is " ", 97 and 98 are *)
(* "a" and "b", 169 is a UTF-8 continuation byte, invalid on its own         *)
NUL == 0
LF == 10
CR == 13

\* str.isspace() code points below 256
Whitespace == {9, 10, 11, 12, 13, 28, 29, 30, 31, 32, 133, 160}

---------------------------------------------------------------------------
(* Strings *)

RECURSIVE LStrip(_)
LStrip(s) ==
    IF s = <<>> THEN s
    ELSE IF Head(s) \in Whitespace THEN LStrip(Tail(s)) ELSE s

RECURSIVE RStripSet(_, _)
RStripSet(s, chars) ==
    IF s = <<>> THEN s
    ELSE IF s[Len(s)] \in chars THEN RStripSet(SubSeq(s, 1, Len(s) - 1), chars)
    ELSE s

\* str.strip()
Strip(s) == LStrip(RStripSet(s, Whitespace))

\* str.rstrip("\n")
RStripNL(s) == RStripSet(s, {LF})

\* index of the first occurrence of b in s, 0 when absent
RECURSIVE FindFrom(_, _, _)
FindFrom(s, b, i) ==
    IF i > Len(s) THEN 0
    ELSE IF s[i] = b THEN i ELSE FindFrom(s, b, i + 1)

Find(s, b) == FindFrom(s, b, 1)

\* bytes.decode("utf-8") for one- and two-byte sequences:
\* [ok |-> FALSE] stands for UnicodeDecodeError
RECURSIVE Utf8Decode(_)
Utf8Decode(bs) ==
    IF bs = <<>> THEN [ok |-> TRUE, str |-> <<>>]
    ELSE IF bs[1] < 128 THEN
        LET r == Utf8Decode(Tail(bs))
        IN  IF r.ok THEN [ok |-> TRUE, str |-> <<bs[1]>> \o r.str] ELSE r
    ELSE IF bs[1] \in 194..223 /\ Len(bs) >= 2 /\ bs[2] \in 128..191 THEN
        LET r == Utf8Decode(SubSeq(bs, 3, Len(bs)))
            cp == (bs[1] - 192) * 64 + (bs[2] - 128)
        IN  IF r.ok THEN [ok |-> TRUE, str |-> <<cp>> \o r.str] ELSE r
    ELSE [ok |-> FALSE, str |-> <<>>]

\* str < str, by code points
RECURSIVE LexLess(_, _)
LexLess(s, t) ==
    IF t = <<>> THEN FALSE
    ELSE IF s = <<>> THEN TRUE
    ELSE IF Head(s) < Head(t) THEN TRUE
    ELSE IF Head(s) > Head(t) THEN FALSE
    ELSE LexLess(Tail(s), Tail(t))

RECURSIVE InsertSorted(_, _)
InsertSorted(x, a) ==
    IF a = <<>> THEN <<x>>
    ELSE IF LexLess(x, Head(a)) THEN <<x>> \o a
    ELSE <<Head(a)>> \o InsertSorted(x, Tail(a))

\* sorted(list of str)
RECURSIVE Sorted(_)
Sorted(a) ==
    IF a = <<>> THEN <<>>
    ELSE InsertSorted(Head(a), Sorted(Tail(a)))

\* bisect.bisect_left(a, x), as a 0-based index
RECURSIVE BisectLoop(_, _, _, _)
BisectLoop(a, x, lo, hi) ==
    IF lo >= hi THEN lo
    ELSE LET mid == (lo + hi) \div 2
         IN  IF LexLess(a[mid + 1], x)
             THEN BisectLoop(a, x, mid + 1, hi)
             ELSE BisectLoop(a, x, lo, mid)

BisectLeft(a, x) == BisectLoop(a, x, 0, Len(a))

\* any(line == q for line in lines)
AnyEqual(lines, q) == \E i \in 1..Len(lines) : lines[i] = q

NonEmpty(s) == s # <<>>

---------------------------------------------------------------------------
(* Reading the dataset file *)

\* the segments load_file cuts out of the mapped bytes at each b'\n'
RECURSIVE MmapSegments(_)
MmapSegments(bs) ==
    IF bs = <<>> THEN <<>>
    ELSE LET nl == Find(bs, LF)
         IN  IF nl = 0 THEN <<bs>>
             ELSE <<SubSeq(bs, 1, nl - 1)>> \o MmapSegments(SubSeq(bs, nl + 1, Len(bs)))

\* text-mode newline translation: "\r\n" and "\r" are read as "\n"
RECURSIVE UniversalNewlines(_)
UniversalNewlines(s) ==
    IF s = <<>> THEN <<>>
    ELSE IF s[1] = CR THEN
        IF Len(s) >= 2 /\ s[2] = LF
        THEN <<LF>> \o UniversalNewlines(SubSeq(s, 3, Len(s)))
        ELSE <<LF>> \o UniversalNewlines(Tail(s))
    ELSE <<s[1]>> \o UniversalNewlines(Tail(s))

\* the lines "for line in file" yields, each with its trailing "\n"
RECURSIVE SplitKeepNL(_)
SplitKeepNL(s) ==
    IF s = <<>> THEN <<>>
    ELSE LET nl == Find(s, LF)
         IN  IF nl = 0 THEN <<s>>
             ELSE <<SubSeq(s, 1, nl)>> \o SplitKeepNL(SubSeq(s, nl + 1, Len(s)))

TextLines(str) == SplitKeepNL(UniversalNewlines(str))

StripAll(lines) == [i \in 1..Len(lines) |-> Strip(lines[i])]

RStripNLAll(lines) == [i \in 1..Len(lines) |-> RStripNL(lines[i])]

\* every segment decodes
AllDecode(segs) == \A i \in 1..Len(segs) : Utf8Decode(segs[i]).ok

DecodeAll(segs) == [i \in 1..Len(segs) |-> Utf8Decode(segs[i]).str]

---------------------------------------------------------------------------
(* Searcher (search.py) *)

NoResult == [raised |-> "", value |-> FALSE]
Returned(b) == [raised |-> "", value |-> b]
Raised(e) == [raised |-> e, value |-> FALSE]

\* the exception open() raises on the file, "" when it opens
OpenError(f) ==
    CASE f.state = "missing" -> "FileNotFoundError"
      [] f.state = "unreadable" -> "PermissionError"
      [] OTHER -> ""

\* Searcher.__init__: algorithm takes precedence over method
ChosenMethod(a) == IF a.algorithm # "" THEN a.algorithm ELSE a.method

\* _initialize_memory_mapping: TRUE iff self._mmap is set; open or mmap
\* failing (mmap refuses an empty file) leaves it None
InitializeMemoryMapping(f, mmap_ok) ==
    OpenError(f) = "" /\ f.bytes # <<>> /\ mmap_ok

\* load_file: the value of self.data, or the exception raised
LoadFile(f, mmap) ==
    IF mmap THEN
        LET segs == MmapSegments(f.bytes)
        IN  IF AllDecode(segs)
            THEN [raised |-> "",
                  data |-> SelectSeq(StripAll(DecodeAll(segs)), NonEmpty)]
            ELSE [raised |-> "UnicodeDecodeError", data |-> <<>>]
    ELSE IF OpenError(f) # "" THEN [raised |-> OpenError(f), data |-> <<>>]
    ELSE LET d == Utf8Decode(f.bytes)
         IN  IF d.ok
             THEN [raised |-> "",
                   data |-> SelectSeq(StripAll(TextLines(d.str)), NonEmpty)]
             ELSE [raised |-> "UnicodeDecodeError", data |-> <<>>]

BlankSearcher ==
    [method |-> "", reread_on_query |-> FALSE, data |-> <<>>,
     sorted_data |-> <<>>, mmap |-> FALSE]

\* Searcher.__init__: [raised, obj]
NewSearcher(f, a) ==
    LET m == ChosenMethod(a)
        mm == (~a.reread_on_query) /\ InitializeMemoryMapping(f, a.mmap_ok)
        ld == IF a.reread_on_query THEN [raised |-> "", data |-> <<>>]
              ELSE LoadFile(f, mm)
    IN  [raised |-> ld.raised,
         obj |-> [method |-> m,
                  reread_on_query |-> a.reread_on_query,
                  data |-> ld.data,
                  sorted_data |-> IF m = "binary" /\ ~a.reread_on_query
                                  THEN Sorted(ld.data) ELSE <<>>,
                  mmap |-> mm]]

\* linear_search
LinearSearch(s, q) == AnyEqual(s.data, RStripNL(q))

\* the bisect lookup shared by binary_search and the reread binary branch
BisectFind(a, x) ==
    LET index == BisectLeft(a, x)
    IN  index # Len(a) /\ a[index + 1] = x

\* binary_search
BinarySearch(s, q) == BisectFind(s.sorted_data, Strip(q))

\* a bug: the reread search answers from the lines stored in the object
SearchWithRereadStale(s, f, q0) == Returned(AnyEqual(s.data, RStripNL(q0)))

\* _search_with_reread
SearchWithReread(s, f, q0) ==
    LET q == RStripNL(q0)
    IN  IF q = <<>> THEN Returned(FALSE)
        ELSE IF s.mmap THEN Raised("AttributeError")   \* memoryview has no find
        ELSE IF OpenError(f) # "" THEN Raised(OpenError(f))
        ELSE LET d == Utf8Decode(f.bytes)
             IN  IF ~d.ok THEN Raised("UnicodeDecodeError")
                 ELSE IF s.method = "binary"
                 THEN Returned(BisectFind(
                          Sorted(SelectSeq(RStripNLAll(TextLines(d.str)), NonEmpty)),
                          Strip(q)))
                 ELSE Returned(AnyEqual(RStripNLAll(TextLines(d.str)), q))

\* a bug: no empty-query guard on the way to the file scan
SearchUnguarded(s, f, q0) ==
    LET q == RStripNL(q0)
    IN  IF s.reread_on_query
        THEN IF OpenError(f) # "" THEN Raised(OpenError(f))
             ELSE Returned(AnyEqual(RStripNLAll(TextLines(Utf8Decode(f.bytes).str)), q))
        ELSE IF s.method = "binary" THEN Returned(BinarySearch(s, q))
        ELSE Returned(LinearSearch(s, q))

\* Searcher.search
Search(s, f, q0) ==
    LET q == RStripNL(q0)
    IN  IF q = <<>> THEN Returned(FALSE)
        ELSE IF s.reread_on_query THEN SearchWithReread(s, f, q)
        ELSE IF s.method = "binary" THEN Returned(BinarySearch(s, q))
        ELSE Returned(LinearSearch(s, q))

---------------------------------------------------------------------------
(* create_ssl_context (ssl_utils.py) *)

\* no create_ssl_context call has been made
NoContext ==
    [called |-> FALSE, raised |-> "", detail |-> "", parsed |-> FALSE,
     chain |-> FALSE, context |-> FALSE, verify_mode |-> ""]

\* create_ssl_context raised: the exception type, what its message names,
\* whether the certificate was parsed and whether load_cert_chain was called
ContextError(e, d, parsed, chain) ==
    [called |-> TRUE, raised |-> e, detail |-> d, parsed |-> parsed,
     chain |-> chain, context |-> FALSE, verify_mode |-> ""]

\* create_ssl_context returned a context
ContextReturned(mode) ==
    [called |-> TRUE, raised |-> "", detail |-> "", parsed |-> TRUE,
     chain |-> TRUE, context |-> TRUE, verify_mode |-> mode]

\* a bug: the key file is looked for before the certificate file
MissingFileKeyFirst(t) ==
    IF t.key = "missing" THEN "keyfile"
    ELSE IF t.cert = "missing" THEN "certfile"
    ELSE ""

\* the two os.path.exists checks: the path named by the error, "" when both exist
MissingFile(t) ==
    IF t.cert = "missing" THEN "certfile"
    ELSE IF t.key = "missing" THEN "keyfile"
    ELSE ""

\* a bug: only expiry is checked
OutsideWindowExpiryOnly(t) == t.not_valid_after < t.now

\* cert.not_valid_before > now or cert.not_valid_after < now
OutsideWindow(t) == t.not_valid_before > t.now \/ t.not_valid_after < t.now

\* create_ssl_context(certfile, keyfile, cafile)
CreateSslContext(t) ==
    IF MissingFile(t) # ""
    THEN ContextError("FileNotFoundError", MissingFile(t), FALSE, FALSE)
    ELSE IF t.cert = "malformed"
    THEN ContextError("ValueError", "certfile", TRUE, FALSE)
    ELSE IF OutsideWindow(t)
    THEN ContextError("SSLError", "Certificate is expired or not yet valid.",
                      TRUE, FALSE)
    ELSE IF ~t.pair_ok
    THEN ContextError("SSLError", "load_cert_chain", TRUE, TRUE)
    ELSE IF t.cafile = "missing"
    THEN ContextError("FileNotFoundError", "cafile", TRUE, TRUE)
    ELSE ContextReturned(IF t.cafile # "" THEN "CERT_REQUIRED" ELSE "CERT_NONE")

Times == 0..MaxTime

\* what create_ssl_context can find on disk and on the clock
TlsInputs ==
    {t \in [cert : {"missing", "malformed", "pem"},
            key : {"missing", "present"},
            not_valid_before : Times,
            not_valid_after : Times,
            now : Times,
            pair_ok : BOOLEAN,
            cafile : {"", "missing", "pem"}] :
        t.not_valid_before <= t.not_valid_after}

\* a certificate in its validity window with its own key
GoodTls(cafile) ==
    [cert |-> "pem", key |-> "present", not_valid_before |-> 0,
     not_valid_after |-> MaxTime, now |-> 1, pair_ok |-> TRUE, cafile |-> cafile]

---------------------------------------------------------------------------
(* SearchSpec: construct a Searcher on a file, then search it *)

FileAlphabet == {LF, CR, 32, 97, 98}
QueryAlphabet == {LF, 32, 97, 98}

SeqsUpTo(S, n) == UNION {[1..k -> S] : k \in 0..n}

Methods == {"linear", "binary"}

PresentFile(bs) == [state |-> "present", bytes |-> bs]

Files ==
    {PresentFile(bs) : bs \in SeqsUpTo(FileAlphabet, MaxFileLen)}
    \cup {[state |-> st, bytes |-> <<>>] : st \in {"missing", "unreadable"}}

ArgSets ==
    [method : Methods, algorithm : {""} \cup Methods,
     reread_on_query : BOOLEAN, mmap_ok : BOOLEAN]

\* no TLS context is being built
TlsIdle ==
    /\ tls = GoodTls("")
    /\ ctx = NoContext

\* no Searcher is in use
SearchIdle ==
    /\ file = [state |-> "missing", bytes |-> <<>>]
    /\ args = [method |-> "linear", algorithm |-> "", reread_on_query |-> FALSE,
               mmap_ok |-> TRUE]
    /\ spc = "new"
    /\ searcher = BlankSearcher
    /\ query = <<>>
    /\ result = NoResult
    /\ loaded = file

\* no server is running
ServerIdle ==
    /\ mpc = "none"
    /\ listener = "none"
    /\ cleanups = 0
    /\ connOpen = <<>>
    /\ peerCert = <<>>
    /\ handshake = <<>>
    /\ lock = "free"
    /\ reports = 0
    /\ config = [reread_on_query |-> FALSE, ssl_enabled |-> FALSE,
                 max_workers |-> 1, absent |-> <<>>,
                 max_allowed_time_ms |-> MaxAllowedTimeMs]
    /\ shutdown_flag = FALSE
    /\ active_connections = {}
    /\ connection_stats = <<>>
    /\ pc = <<>>
    /\ peer = <<>>
    /\ inflight = <<>>
    /\ sent = 0
    /\ buffer = <<>>
    /\ query_part = <<>>
    /\ response = <<>>
    /\ writes = <<>>
    /\ closeCalls = <<>>
    /\ exit = <<>>
    /\ rcvd = <<>>
    /\ extracted = <<>>
    /\ split = <<>>
    /\ waited = <<>>
    /\ warnings = <<>>

SearchInit ==
    /\ file \in Files
    /\ args \in ArgSets
    /\ spc = "new"
    /\ searcher = BlankSearcher
    /\ query = <<>>
    /\ result = NoResult
    /\ loaded = file
    /\ ServerIdle
    /\ TlsIdle

\* Searcher(path, method, reread_on_query, algorithm)
Construct ==
    /\ spc = "new"
    /\ LET r == NewSearcher(file, args)
       IN  IF r.raised = ""
           THEN spc' = "ready" /\ searcher' = r.obj
           ELSE spc' = "failed" /\ UNCHANGED searcher
    /\ loaded' = file
    /\ UNCHANGED <<file, args, query, result>>
    /\ UNCHANGED serverVars
    /\ UNCHANGED startVars

\* a bug: the binary search sorts the stored lines in place
SearcherSortedInPlace(s, q) ==
    IF s.method = "binary" THEN [s EXCEPT !.data = Sorted(s.data)] ELSE s

\* the fields of the Searcher after search(q): search, linear_search,
\* binary_search and _search_with_reread assign to no field of self
SearcherAfterSearch(s, q) == s

\* searcher.search(q)
SearchCall(q) ==
    /\ spc \in {"ready", "searched"}
    /\ spc' = "searched"
    /\ query' = q
    /\ result' = Search(searcher, file, q)
    /\ searcher' = SearcherAfterSearch(searcher, q)
    /\ UNCHANGED <<file, args, loaded>>
    /\ UNCHANGED serverVars
    /\ UNCHANGED startVars

\* the contents another process may write to the backing file
ModifiedFiles ==
    {PresentFile(bs) : bs \in SeqsUpTo({LF, 32, 97}, MaxRewriteLen)}

\* the backing file is rewritten between two queries; no search has run on
\* the new content yet
ModifyFile(f) ==
    /\ spc \in {"ready", "searched"}
    /\ f # file
    /\ file' = f
    /\ spc' = "ready"
    /\ query' = <<>>
    /\ result' = NoResult
    /\ UNCHANGED <<args, searcher, loaded>>
    /\ UNCHANGED serverVars
    /\ UNCHANGED startVars

SearchNext ==
    \/ Construct
    \/ \E q \in SeqsUpTo(QueryAlphabet, MaxQueryLen) : SearchCall(q)
    \/ \E f \in ModifiedFiles : ModifyFile(f)

SearchSpec == SearchInit /\ [][SearchNext]_vars

---------------------------------------------------------------------------
(* SslSpec: create_ssl_context is called on some files at some time *)

SslInit ==
    /\ tls \in TlsInputs
    /\ ctx = NoContext
    /\ SearchIdle
    /\ ServerIdle

\* create_ssl_context(certfile, keyfile, cafile)
CreateSslContextCall ==
    /\ ~ctx.called
    /\ ctx' = CreateSslContext(tls)
    /\ UNCHANGED tls
    /\ UNCHANGED searchVars
    /\ UNCHANGED serverVars
    /\ UNCHANGED <<mpc, listener, cleanups, connOpen, peerCert, handshake, lock, reports>>

SslNext == CreateSslContextCall

SslSpec == SslInit /\ [][SslNext]_vars

---------------------------------------------------------------------------
(* TCPServer.handle_client (server.py) *)

Conns == 1..NumConns

RecvSize == 1024

STRING_EXISTS == "STRING EXISTS\n"
STRING_NOT_FOUND == "STRING NOT FOUND\n"

\* the peer address a connection was accepted from
AddressOf(c) == <<"127.0.0.1", 12345 + ((c - 1) \div 2)>>

Min(a, b) == IF a < b THEN a ELSE b

\* a bug: buffer = data, the bytes of earlier receives are lost
AccumulateOverwrite(buf, data) == data

\* buffer += data
Accumulate(buf, data) == buf \o data

\* b"\x00" in buffer
HasFrame(buf) == Find(buf, NUL) # 0

\* a bug: rpartition, the cut is made at the last terminator
PartitionLast(buf) ==
    LET i == CHOOSE j \in 1..Len(buf) :
                 buf[j] = NUL /\ \A k \in (j + 1)..Len(buf) : buf[k] # NUL
    IN  [query_part |-> SubSeq(buf, 1, i - 1),
         buffer |-> SubSeq(buf, i + 1, Len(buf))]

\* query_part, _, buffer = buffer.partition(b"\x00")
Partition(buf) ==
    LET i == Find(buf, NUL)
    IN  [query_part |-> SubSeq(buf, 1, i - 1),
         buffer |-> SubSeq(buf, i + 1, Len(buf))]

\* "STRING EXISTS\n" if exists else "STRING NOT FOUND\n"
VerdictLine(exists) == IF exists THEN STRING_EXISTS ELSE STRING_NOT_FOUND

\* a bug: the decoded frame is searched without strip()
HandleFrameNoStrip(s, f, frame) ==
    LET d == Utf8Decode(frame)
    IN  IF ~d.ok
        THEN [raised |-> "", line |-> STRING_NOT_FOUND, counted |-> FALSE]
        ELSE LET r == Search(s, f, d.str)
             IN  IF r.raised = ""
                 THEN [raised |-> "", line |-> VerdictLine(r.value), counted |-> TRUE]
                 ELSE IF r.raised = "UnicodeDecodeError"
                 THEN [raised |-> "", line |-> STRING_NOT_FOUND, counted |-> FALSE]
                 ELSE [raised |-> r.raised, line |-> "", counted |-> FALSE]

\* a bug: the text of an unexpected exception is sent to the client
HandleFrameReportsError(s, f, frame) ==
    LET d == Utf8Decode(frame)
    IN  IF ~d.ok
        THEN [raised |-> "", line |-> STRING_NOT_FOUND, counted |-> FALSE]
        ELSE LET r == Search(s, f, Strip(d.str))
             IN  IF r.raised = ""
                 THEN [raised |-> "", line |-> VerdictLine(r.value), counted |-> TRUE]
                 ELSE IF r.raised = "UnicodeDecodeError"
                 THEN [raised |-> "", line |-> STRING_NOT_FOUND, counted |-> FALSE]
                 ELSE [raised |-> "", line |-> r.raised, counted |-> FALSE]

\* a bug: no handler for UnicodeDecodeError, the decode failure leaves the loop
HandleFrameDecodeRaises(s, f, frame) ==
    LET d == Utf8Decode(frame)
    IN  IF ~d.ok
        THEN [raised |-> "UnicodeDecodeError", line |-> "", counted |-> FALSE]
        ELSE LET r == Search(s, f, Strip(d.str))
             IN  IF r.raised = ""
                 THEN [raised |-> "", line |-> VerdictLine(r.value), counted |-> TRUE]
                 ELSE [raised |-> r.raised, line |-> "", counted |-> FALSE]

\* the try block around decode and search: the line written for a frame, or
\* the exception that leaves the loop; counted iff the statistics are updated
HandleFrame(s, f, frame) ==
    LET d == Utf8Decode(frame)
    IN  IF ~d.ok
        THEN [raised |-> "", line |-> STRING_NOT_FOUND, counted |-> FALSE]
        ELSE LET r == Search(s, f, Strip(d.str))
             IN  IF r.raised = ""
                 THEN [raised |-> "", line |-> VerdictLine(r.value), counted |-> TRUE]
                 ELSE IF r.raised = "UnicodeDecodeError"
                 THEN [raised |-> "", line |-> STRING_NOT_FOUND, counted |-> FALSE]
                 ELSE [raised |-> r.raised, line |-> "", counted |-> FALSE]

\* self.active_connections.add(conn)
AddConnection(set, c) == set \cup {c}

\* a bug: the connection is not taken out of the set
DiscardConnectionSkipped(set, c) == set

\* a bug: a session takes every connection out of the set
DiscardAll(set, c) == {}

\* self.active_connections.discard(conn)
DiscardConnection(set, c) == set \ {c}

\* conn.shutdown(socket.SHUT_RDWR) raises on a connection the peer has reset
ShutdownRaises(p) == p = "reset"

\* the try block of the finally clause: conn.shutdown(...); conn.close()
CloseCallsAfterRelease(n, p) == IF ShutdownRaises(p) THEN n ELSE n + 1

\* duration_ms of the search of a frame: the clock is not modelled, the
\* measured time grows with the frame
DurationOf(frame) == Len(frame) + 1

\* a bug: a query that takes exactly the ceiling is reported as slow
SlowQueryInclusive(duration, ceiling) == duration >= ceiling

\* if duration_ms > self.max_allowed_time_ms: logging.warning(...)
SlowQuery(duration, ceiling) == duration > ceiling

\* a bug: the entry is written anew on every query
RecordQueryOverwrite(stats, a, duration) ==
    (a :> [count |-> 1, total_time |-> duration]) @@ stats

\* _update_connection_stats: count and total_time recorded for the address
RecordQuery(stats, a, duration) ==
    IF a \in DOMAIN stats
    THEN [stats EXCEPT ![a] = [count |-> @.count + 1,
                               total_time |-> @.total_time + duration]]
    ELSE (a :> [count |-> 1, total_time |-> duration]) @@ stats

\* a bug: the verdict is sent in the try body and again by the handler
SendAllCallsTwice(log, line) == log \o <<line, line>>

\* conn.sendall(line): the calls made on the connection so far
SendAllCalls(log, line) == Append(log, line)

\* the connections whose handle_client call is running on a pool worker
Executing ==
    {c \in Conns : pc[c] \in {"loop", "recv", "frame", "send", "finally", "discard"}}

\* a bug: the pool starts a task whenever one is queued
PoolUnbounded == TRUE

\* ThreadPoolExecutor(max_workers=...): a queued task starts only on a free worker
PoolHasIdleWorker == Cardinality(Executing) < config.max_workers

\* handle_client entered on a worker: register the connection, empty buffer
HandleClientEnter(c) ==
    /\ pc[c] = "queued"
    /\ PoolHasIdleWorker
    /\ lock = "free"
    /\ active_connections' = AddConnection(active_connections, c)
    /\ buffer' = [buffer EXCEPT ![c] = <<>>]
    /\ pc' = [pc EXCEPT ![c] = "loop"]
    /\ UNCHANGED <<config, shutdown_flag, connection_stats, peer, inflight,
                   sent, query_part, response, writes, closeCalls, exit, rcvd,
                   extracted, split, waited, warnings>>
    /\ UNCHANGED searchVars
    /\ UNCHANGED startVars

\* while not self.shutdown_flag
LoopCheck(c) ==
    /\ pc[c] = "loop"
    /\ IF shutdown_flag
       THEN /\ pc' = [pc EXCEPT ![c] = "finally"]
            /\ exit' = [exit EXCEPT ![c] = "shutdown"]
       ELSE /\ pc' = [pc EXCEPT ![c] = "recv"]
            /\ UNCHANGED exit
    /\ UNCHANGED <<config, shutdown_flag, active_connections, connection_stats,
                   peer, inflight, sent, buffer, query_part, response, writes,
                   closeCalls, rcvd, extracted, split, waited, warnings>>
    /\ UNCHANGED searchVars
    /\ UNCHANGED startVars

\* data = conn.recv(1024) returns n bytes; buffer += data; one frame is cut
\* off when the buffer holds a terminator
RecvData(c, n) ==
    /\ pc[c] = "recv"
    /\ peer[c] \in {"open", "closed"}
    /\ n \in 1..Min(Len(inflight[c]), RecvSize)
    /\ LET data == SubSeq(inflight[c], 1, n)
           buf == Accumulate(buffer[c], data)
       IN  /\ inflight' = [inflight EXCEPT ![c] = SubSeq(@, n + 1, Len(@))]
           /\ rcvd' = [rcvd EXCEPT ![c] = @ \o data]
           /\ IF HasFrame(buf)
              THEN /\ query_part' = [query_part EXCEPT ![c] = Partition(buf).query_part]
                   /\ buffer' = [buffer EXCEPT ![c] = Partition(buf).buffer]
                   /\ extracted' = [extracted EXCEPT ![c] = @ + 1]
                   /\ split' = [split EXCEPT ![c] = buffer[c] # <<>>]
                   /\ pc' = [pc EXCEPT ![c] = "frame"]
              ELSE /\ buffer' = [buffer EXCEPT ![c] = buf]
                   /\ pc' = [pc EXCEPT ![c] = "loop"]
                   /\ UNCHANGED <<query_part, extracted, split>>
    /\ UNCHANGED <<config, shutdown_flag, active_connections, connection_stats,
                   peer, sent, response, writes, closeCalls, exit, waited, warnings>>
    /\ UNCHANGED searchVars
    /\ UNCHANGED startVars

\* recv returns b"": the peer has closed; break
RecvEOF(c) ==
    /\ pc[c] = "recv"
    /\ peer[c] = "closed"
    /\ inflight[c] = <<>>
    /\ pc' = [pc EXCEPT ![c] = "finally"]
    /\ exit' = [exit EXCEPT ![c] = "eof"]
    /\ UNCHANGED <<config, shutdown_flag, active_connections, connection_stats,
                   peer, inflight, sent, buffer, query_part, response, writes,
                   closeCalls, rcvd, extracted, split, waited, warnings>>
    /\ UNCHANGED searchVars
    /\ UNCHANGED startVars

\* a bug: a timeout drops the partial frame
AfterTimeoutCleared(buf) == <<>>

\* the buffer after "except socket.timeout: continue"
AfterTimeout(buf) == buf

\* recv raises socket.timeout: continue
RecvTimeout(c) ==
    /\ pc[c] = "recv"
    /\ peer[c] = "open"
    /\ inflight[c] = <<>>
    /\ buffer' = [buffer EXCEPT ![c] = AfterTimeout(@)]
    /\ waited' = [waited EXCEPT ![c] = @ \/ (buffer[c] # <<>>)]
    /\ pc' = [pc EXCEPT ![c] = "loop"]
    /\ UNCHANGED <<config, shutdown_flag, active_connections, connection_stats,
                   peer, inflight, sent, query_part, response, writes,
                   closeCalls, exit, rcvd, extracted, split, warnings>>
    /\ UNCHANGED searchVars
    /\ UNCHANGED startVars

\* recv raises ConnectionResetError: caught by the outer handler
RecvReset(c) ==
    /\ pc[c] = "recv"
    /\ peer[c] = "reset"
    /\ pc' = [pc EXCEPT ![c] = "finally"]
    /\ exit' = [exit EXCEPT ![c] = "reset"]
    /\ UNCHANGED <<config, shutdown_flag, active_connections, connection_stats,
                   peer, inflight, sent, buffer, query_part, response, writes,
                   closeCalls, rcvd, extracted, split, waited, warnings>>
    /\ UNCHANGED searchVars
    /\ UNCHANGED startVars

\* recv raises ssl.SSLError: break
RecvSSLError(c) ==
    /\ pc[c] = "recv"
    /\ peer[c] = "tlserr"
    /\ pc' = [pc EXCEPT ![c] = "finally"]
    /\ exit' = [exit EXCEPT ![c] = "ssl"]
    /\ UNCHANGED <<config, shutdown_flag, active_connections, connection_stats,
                   peer, inflight, sent, buffer, query_part, response, writes,
                   closeCalls, rcvd, extracted, split, waited, warnings>>
    /\ UNCHANGED searchVars
    /\ UNCHANGED startVars

\* decode the frame and search; on success record the query in the statistics
ProcessFrame(c) ==
    /\ pc[c] = "frame"
    /\ HandleFrame(searcher, file, query_part[c]).counted => lock = "free"
    /\ LET h == HandleFrame(searcher, file, query_part[c])
       IN  IF h.raised = ""
           THEN /\ response' = [response EXCEPT ![c] = h.line]
                /\ connection_stats' =
                       IF h.counted
                       THEN RecordQuery(connection_stats, AddressOf(c),
                                        DurationOf(query_part[c]))
                       ELSE connection_stats
                /\ warnings' =
                       IF h.counted /\ SlowQuery(DurationOf(query_part[c]),
                                                 config.max_allowed_time_ms)
                       THEN [warnings EXCEPT ![c] = @ + 1]
                       ELSE warnings
                /\ pc' = [pc EXCEPT ![c] = "send"]
                /\ UNCHANGED exit
           ELSE /\ pc' = [pc EXCEPT ![c] = "finally"]
                /\ exit' = [exit EXCEPT ![c] = "error"]
                /\ UNCHANGED <<response, connection_stats, warnings>>
    /\ UNCHANGED <<config, shutdown_flag, active_connections, peer, inflight,
                   sent, buffer, query_part, writes, closeCalls, rcvd,
                   extracted, split, waited>>
    /\ UNCHANGED searchVars
    /\ UNCHANGED startVars

\* conn.sendall(response); BrokenPipeError when the peer has reset
SendAll(c) ==
    /\ pc[c] = "send"
    /\ writes' = [writes EXCEPT ![c] = SendAllCalls(@, response[c])]
    /\ IF peer[c] = "reset"
       THEN /\ pc' = [pc EXCEPT ![c] = "finally"]
            /\ exit' = [exit EXCEPT ![c] = "reset"]
       ELSE /\ pc' = [pc EXCEPT ![c] = "loop"]
            /\ UNCHANGED exit
    /\ UNCHANGED <<config, shutdown_flag, active_connections, connection_stats,
                   peer, inflight, sent, buffer, query_part, response,
                   closeCalls, rcvd, extracted, split, waited, warnings>>
    /\ UNCHANGED searchVars
    /\ UNCHANGED startVars

\* finally: conn.shutdown(SHUT_RDWR); conn.close(), errors swallowed
ReleaseClose(c) ==
    /\ pc[c] = "finally"
    /\ closeCalls' = [closeCalls EXCEPT ![c] = CloseCallsAfterRelease(@, peer[c])]
    /\ connOpen' = [connOpen EXCEPT ![c] = ShutdownRaises(peer[c])]
    /\ pc' = [pc EXCEPT ![c] = "discard"]
    /\ UNCHANGED <<config, shutdown_flag, active_connections, connection_stats,
                   peer, inflight, sent, buffer, query_part, response, writes,
                   exit, rcvd, extracted, split, waited, warnings>>
    /\ UNCHANGED searchVars
    /\ UNCHANGED <<tls, ctx, mpc, listener, cleanups, peerCert, handshake, lock, reports>>

\* inner finally: with self.lock: self.active_connections.discard(conn)
ReleaseDiscard(c) ==
    /\ pc[c] = "discard"
    /\ lock = "free"
    /\ active_connections' = DiscardConnection(active_connections, c)
    /\ pc' = [pc EXCEPT ![c] = "done"]
    /\ UNCHANGED <<config, shutdown_flag, connection_stats, peer, inflight,
                   sent, buffer, query_part, response, writes, closeCalls,
                   exit, rcvd, extracted, split, waited, warnings>>
    /\ UNCHANGED searchVars
    /\ UNCHANGED startVars

---------------------------------------------------------------------------
(* The peers and the termination signal *)

\* the terminator, "a", and a byte that is no valid UTF-8
WireBytes == {NUL, 97, 169}

\* what a peer writes, and its closing, is observed by recv alone: these steps
\* are taken while the session waits in recv
AwaitsData(c) == pc[c] = "recv"

\* a reset is observed by recv, by sendall and by the shutdown call of the
\* release: it is taken when the session is about to perform one of them
ObservesReset(c) == pc[c] \in {"recv", "send", "finally"}

\* the client writes one more byte of its stream
PeerSend(c, b) ==
    /\ peer[c] = "open"
    /\ AwaitsData(c)
    /\ sent < MaxBytes
    /\ inflight' = [inflight EXCEPT ![c] = Append(@, b)]
    /\ sent' = sent + 1
    /\ UNCHANGED <<config, shutdown_flag, active_connections, connection_stats,
                   pc, peer, buffer, query_part, response, writes, closeCalls,
                   exit, rcvd, extracted, split, waited, warnings>>
    /\ UNCHANGED searchVars
    /\ UNCHANGED startVars

\* the client closes its end
PeerClose(c) ==
    /\ peer[c] = "open"
    /\ AwaitsData(c)
    /\ peer' = [peer EXCEPT ![c] = "closed"]
    /\ UNCHANGED <<config, shutdown_flag, active_connections, connection_stats,
                   pc, inflight, sent, buffer, query_part, response, writes,
                   closeCalls, exit, rcvd, extracted, split, waited, warnings>>
    /\ UNCHANGED searchVars
    /\ UNCHANGED startVars

\* the connection is reset; unread data is dropped
PeerReset(c) ==
    /\ peer[c] \in {"open", "closed"}
    /\ ObservesReset(c)
    /\ peer' = [peer EXCEPT ![c] = "reset"]
    /\ inflight' = [inflight EXCEPT ![c] = <<>>]
    /\ UNCHANGED <<config, shutdown_flag, active_connections, connection_stats,
                   pc, sent, buffer, query_part, response, writes, closeCalls,
                   exit, rcvd, extracted, split, waited, warnings>>
    /\ UNCHANGED searchVars
    /\ UNCHANGED startVars

\* the TLS layer of the connection fails (encrypted transport only)
PeerTlsFault(c) ==
    /\ config.ssl_enabled
    /\ peer[c] = "open"
    /\ AwaitsData(c)
    /\ peer' = [peer EXCEPT ![c] = "tlserr"]
    /\ inflight' = [inflight EXCEPT ![c] = <<>>]
    /\ UNCHANGED <<config, shutdown_flag, active_connections, connection_stats,
                   pc, sent, buffer, query_part, response, writes, closeCalls,
                   exit, rcvd, extracted, split, waited, warnings>>
    /\ UNCHANGED searchVars
    /\ UNCHANGED startVars

\* main has installed the handler on a constructed server and the process runs
HandlerInstalled == mpc \notin {"new", "crashed", "exit_1", "exited"}

\* a bug: the handler toggles the flag
FlagToggled(flag) == ~flag

\* handler: self.shutdown_flag = True
FlagAfterSignal(flag) == TRUE

\* the SIGINT/SIGTERM handler, delivered any number of times
SignalHandler ==
    /\ HandlerInstalled
    /\ shutdown_flag' = FlagAfterSignal(shutdown_flag)
    /\ UNCHANGED <<config, active_connections, connection_stats, pc, peer,
                   inflight, sent, buffer, query_part, response, writes,
                   closeCalls, exit, rcvd, extracted, split, waited, warnings>>
    /\ UNCHANGED searchVars
    /\ UNCHANGED startVars

---------------------------------------------------------------------------
(* Spec: a constructed server with NumConns dispatched connections *)

ServerFiles ==
    {PresentFile(<<97, LF, LF, 32, LF>>),       \* "a", an empty and a blank line
     [state |-> "missing", bytes |-> <<>>]}

\* TCPServer.__init__: Searcher(self.file_path, reread_on_query=...)
ServerSearcherArgs(reread) ==
    [method |-> "linear", algorithm |-> "", reread_on_query |-> reread,
     mmap_ok |-> TRUE]

Init ==
    /\ file \in ServerFiles
    /\ config \in [reread_on_query : BOOLEAN, ssl_enabled : BOOLEAN,
                    max_workers : 1..NumConns, absent : {<<>>},
                    max_allowed_time_ms : {MaxAllowedTimeMs}]
    /\ args = ServerSearcherArgs(config.reread_on_query)
    /\ NewSearcher(file, args).raised = ""
    /\ searcher = NewSearcher(file, args).obj
    /\ spc = "ready"
    /\ query = <<>>
    /\ result = NoResult
    /\ loaded = file
    /\ shutdown_flag = FALSE
    /\ active_connections = {}
    /\ connection_stats = <<>>
    /\ pc = [c \in Conns |-> "queued"]
    /\ peer = [c \in Conns |-> "open"]
    /\ inflight = [c \in Conns |-> <<>>]
    /\ sent = 0
    /\ buffer = [c \in Conns |-> <<>>]
    /\ query_part = [c \in Conns |-> <<>>]
    /\ response = [c \in Conns |-> ""]
    /\ writes = [c \in Conns |-> <<>>]
    /\ closeCalls = [c \in Conns |-> 0]
    /\ exit = [c \in Conns |-> ""]
    /\ rcvd = [c \in Conns |-> <<>>]
    /\ extracted = [c \in Conns |-> 0]
    /\ split = [c \in Conns |-> FALSE]
    /\ waited = [c \in Conns |-> FALSE]
    /\ warnings = [c \in Conns |-> 0]
    /\ tls = GoodTls("")
    /\ ctx = IF config.ssl_enabled THEN CreateSslContext(tls) ELSE NoContext
    /\ mpc = "accepting"
    /\ listener = "listening"
    /\ cleanups = 0
    /\ connOpen = [c \in Conns |-> TRUE]
    /\ peerCert = [c \in Conns |-> "none"]
    /\ handshake = [c \in Conns |-> IF config.ssl_enabled THEN "ok" ELSE "none"]
    /\ lock = "free"
    /\ reports = 0

Next ==
    \/ \E c \in Conns : HandleClientEnter(c)
    \/ \E c \in Conns : LoopCheck(c)
    \/ \E c \in Conns : \E n \in 1..MaxBytes : RecvData(c, n)
    \/ \E c \in Conns : RecvEOF(c)
    \/ \E c \in Conns : RecvTimeout(c)
    \/ \E c \in Conns : RecvReset(c)
    \/ \E c \in Conns : RecvSSLError(c)
    \/ \E c \in Conns : ProcessFrame(c)
    \/ \E c \in Conns : SendAll(c)
    \/ \E c \in Conns : ReleaseClose(c)
    \/ \E c \in Conns : ReleaseDiscard(c)
    \/ \E c \in Conns : \E b \in WireBytes : PeerSend(c, b)
    \/ \E c \in Conns : PeerClose(c)
    \/ \E c \in Conns : PeerReset(c)
    \/ \E c \in Conns : PeerTlsFault(c)
    \/ SignalHandler

Spec == Init /\ [][Next]_vars

---------------------------------------------------------------------------
(* The main thread: TCPServer.__init__, start and cleanup (server.py) *)

\* _validate_config: required_sections, in the order they are checked
RequiredSections ==
    <<[section |-> "SERVER",
       options |-> <<"port", "max_allowed_time_ms", "reread_on_query",
                     "ssl_enabled">>],
      [section |-> "PATHS", options |-> <<"linuxpath">>],
      [section |-> "SSL", options |-> <<"certfile", "keyfile">>]>>

\* the sections and options the server reads with a fallback
OptionalOptions == {<<"SSL", "cafile">>}

\* what config.ini lacks: nothing, one whole section, or one option
ConfigGaps ==
    {<<>>}
        \cup {<<RequiredSections[i].section>> : i \in DOMAIN RequiredSections}
        \cup UNION {{<<RequiredSections[i].section, RequiredSections[i].options[j]>> :
                        j \in DOMAIN RequiredSections[i].options} :
                    i \in DOMAIN RequiredSections}
        \cup OptionalOptions

\* self.config.has_section(section)
HasSection(cfg, s) == cfg.absent # <<s>>

\* self.config.has_option(section, option)
HasOption(cfg, s, o) == HasSection(cfg, s) /\ cfg.absent # <<s, o>>

\* a bug: only the sections are looked for
ValidateConfigSectionsOnly(cfg) ==
    IF \E i \in DOMAIN RequiredSections :
           ~HasSection(cfg, RequiredSections[i].section)
    THEN "exit_1" ELSE "ok"

\* _validate_config: sys.exit(1) at the first missing section or option
ValidateConfig(cfg) ==
    IF \E i \in DOMAIN RequiredSections :
           \/ ~HasSection(cfg, RequiredSections[i].section)
           \/ \E j \in DOMAIN RequiredSections[i].options :
                  ~HasOption(cfg, RequiredSections[i].section,
                             RequiredSections[i].options[j])
    THEN "exit_1" ELSE "ok"

\* TCPServer.__init__: the configuration is validated, then the Searcher is
\* built; its exception aborts the process
ServerConstruct ==
    /\ mpc = "new"
    /\ IF ValidateConfig(config) = "exit_1"
       THEN mpc' = "exit_1" /\ UNCHANGED <<spc, searcher>>
       ELSE LET r == NewSearcher(file, args)
            IN  IF r.raised = ""
                THEN searcher' = r.obj /\ spc' = "ready" /\ mpc' = "start"
                ELSE spc' = "failed" /\ mpc' = "crashed" /\ UNCHANGED searcher
    /\ loaded' = file
    /\ UNCHANGED <<file, args, query, result>>
    /\ UNCHANGED serverVars
    /\ UNCHANGED <<tls, ctx, listener, cleanups, connOpen, peerCert, handshake, lock, reports>>

\* start: socket(), setsockopt, bind, listen, settimeout
StartListen ==
    /\ mpc = "start"
    /\ listener' = "listening"
    /\ mpc' = "context"
    /\ UNCHANGED searchVars
    /\ UNCHANGED serverVars
    /\ UNCHANGED <<tls, ctx, cleanups, connOpen, peerCert, handshake, lock, reports>>

\* where start goes after the context step: ssl.SSLError is caught and ends
\* the process with sys.exit(1), any other exception propagates
AfterContext(r) ==
    IF r.raised = "" THEN "accept"
    ELSE IF r.raised = "SSLError" THEN "exit_1"
    ELSE "crashed"

\* start: if self.ssl_enabled: context = create_ssl_context(...)
StartContext ==
    /\ mpc = "context"
    /\ IF config.ssl_enabled
       THEN /\ ctx' = CreateSslContext(tls)
            /\ mpc' = AfterContext(CreateSslContext(tls))
       ELSE /\ ctx' = NoContext
            /\ mpc' = "accept"
    /\ UNCHANGED searchVars
    /\ UNCHANGED serverVars
    /\ UNCHANGED <<tls, listener, cleanups, connOpen, peerCert, handshake, lock, reports>>

\* while not self.shutdown_flag (accept loop); finally: self.cleanup(sock)
AcceptLoopCheck ==
    /\ mpc = "accept"
    /\ mpc' = IF shutdown_flag THEN "cleanup" ELSE "accepting"
    /\ UNCHANGED searchVars
    /\ UNCHANGED serverVars
    /\ UNCHANGED <<tls, ctx, listener, cleanups, connOpen, peerCert, handshake, lock, reports>>

\* sock.accept() timed out: except socket.timeout: continue
AcceptTimeout ==
    /\ mpc = "accepting"
    /\ mpc' = "accept"
    /\ UNCHANGED searchVars
    /\ UNCHANGED serverVars
    /\ UNCHANGED <<tls, ctx, listener, cleanups, connOpen, peerCert, handshake, lock, reports>>

HandshakeOutcomes == {"ok", "SSLError", "OSError"}

\* the outcomes wrap_socket can have for a peer: without a context there is
\* no handshake; under CERT_REQUIRED it succeeds only for a verified peer
\* certificate; it can always fail
HandshakePossible(cx, cert, outcome) ==
    IF ~cx.context THEN outcome = "ok"
    ELSE outcome = "ok" => (cx.verify_mode = "CERT_REQUIRED" => cert = "good")

\* conn.getpeercert(): empty unless the peer certificate was verified
GetPeerCert(cx, cert) ==
    IF cx.verify_mode = "CERT_REQUIRED" THEN cert ELSE "none"

\* a bug: every accepted connection is dispatched
AdmitAll(cx, cafile, cert, outcome) == "dispatch"

\* what the acceptor does with an accepted connection: "dispatch" it to the
\* pool, "close" it, or "drop" it (wrap_socket raised an OSError that is no
\* SSLError: the loop logs it and goes on)
Admit(cx, cafile, cert, outcome) ==
    IF ~cx.context THEN "dispatch"
    ELSE IF outcome = "SSLError" THEN "close"
    ELSE IF outcome = "OSError" THEN "drop"
    ELSE IF cafile # "" /\ GetPeerCert(cx, cert) = "none" THEN "close"
    ELSE "dispatch"

\* one turn of the accept loop: accept, handshake, certificate check, submit
Accept(c, outcome) ==
    /\ mpc = "accepting"
    /\ pc[c] = "backlog"
    /\ HandshakePossible(ctx, peerCert[c], outcome)
    /\ LET a == Admit(ctx, tls.cafile, peerCert[c], outcome)
       IN  /\ pc' = [pc EXCEPT ![c] = IF a = "dispatch" THEN "queued" ELSE "refused"]
           /\ connOpen' = [connOpen EXCEPT ![c] = (a = "dispatch")]
           /\ closeCalls' = [closeCalls EXCEPT ![c] = IF a = "close" THEN @ + 1 ELSE @]
    /\ handshake' = [handshake EXCEPT ![c] = IF ctx.context THEN outcome ELSE "none"]
    /\ mpc' = "accept"
    /\ UNCHANGED <<config, shutdown_flag, active_connections, connection_stats,
                   peer, inflight, sent, buffer, query_part, response, writes,
                   exit, rcvd, extracted, split, waited, warnings>>
    /\ UNCHANGED searchVars
    /\ UNCHANGED <<tls, ctx, listener, cleanups, peerCert, lock, reports>>

\* a bug: cleanup flips the flag instead of setting it
CleanupBeginToggles ==
    /\ mpc = "cleanup"
    /\ shutdown_flag' = ~shutdown_flag
    /\ mpc' = "drain"
    /\ UNCHANGED <<config, active_connections, connection_stats, pc, peer,
                   inflight, sent, buffer, query_part, response, writes,
                   closeCalls, exit, rcvd, extracted, split, waited, warnings>>
    /\ UNCHANGED searchVars
    /\ UNCHANGED <<tls, ctx, listener, cleanups, connOpen, peerCert, handshake, lock, reports>>

\* cleanup: self.shutdown_flag = True
CleanupBegin ==
    /\ mpc = "cleanup"
    /\ shutdown_flag' = TRUE
    /\ mpc' = "drain"
    /\ UNCHANGED <<config, active_connections, connection_stats, pc, peer,
                   inflight, sent, buffer, query_part, response, writes,
                   closeCalls, exit, rcvd, extracted, split, waited, warnings>>
    /\ UNCHANGED searchVars
    /\ UNCHANGED <<tls, ctx, listener, cleanups, connOpen, peerCert, handshake, lock, reports>>

\* a bug: the pool shutdown does not wait for the sessions
CleanupDrainNoWait ==
    /\ mpc = "drain"
    /\ mpc' = "lock"
    /\ UNCHANGED searchVars
    /\ UNCHANGED serverVars
    /\ UNCHANGED <<tls, ctx, listener, cleanups, connOpen, peerCert, handshake, lock, reports>>

\* cleanup: self.thread_pool.shutdown(wait=True, cancel_futures=False)
\* returns when every dispatched session has run to its end
CleanupDrain ==
    /\ mpc = "drain"
    /\ Executing = {}
    /\ \A c \in Conns : pc[c] # "queued"
    /\ mpc' = "lock"
    /\ UNCHANGED searchVars
    /\ UNCHANGED serverVars
    /\ UNCHANGED <<tls, ctx, listener, cleanups, connOpen, peerCert, handshake, lock, reports>>

\* cleanup: with self.lock: connections = list(self.active_connections)
CleanupAcquire ==
    /\ mpc = "lock"
    /\ lock = "free"
    /\ lock' = "main"
    /\ mpc' = "closing"
    /\ UNCHANGED searchVars
    /\ UNCHANGED serverVars
    /\ UNCHANGED <<tls, ctx, listener, cleanups, connOpen, peerCert, handshake, reports>>

\* cleanup, one turn of the for loop, the lock held: conn.shutdown(SHUT_RDWR);
\* conn.close() inside try, discard(conn) in its finally
CleanupCloseConn(c) ==
    /\ mpc = "closing"
    /\ c \in active_connections
    /\ closeCalls' = [closeCalls EXCEPT ![c] = CloseCallsAfterRelease(@, peer[c])]
    /\ connOpen' = [connOpen EXCEPT ![c] = ShutdownRaises(peer[c])]
    /\ active_connections' = DiscardConnection(active_connections, c)
    /\ UNCHANGED <<config, shutdown_flag, connection_stats, pc, peer, inflight,
                   sent, buffer, query_part, response, writes, exit, rcvd,
                   extracted, split, waited, warnings>>
    /\ UNCHANGED searchVars
    /\ UNCHANGED <<tls, ctx, mpc, listener, cleanups, peerCert, handshake, lock, reports>>

\* cleanup: the for loop is over, the with block is left
CleanupRelease ==
    /\ mpc = "closing"
    /\ active_connections = {}
    /\ lock' = "free"
    /\ mpc' = "sock"
    /\ UNCHANGED searchVars
    /\ UNCHANGED serverVars
    /\ UNCHANGED <<tls, ctx, listener, cleanups, connOpen, peerCert, handshake, reports>>

\* cleanup: if sock: sock.close()
CleanupCloseSock ==
    /\ mpc = "sock"
    /\ listener' = IF listener = "none" THEN "none" ELSE "closed"
    /\ mpc' = "report"
    /\ UNCHANGED searchVars
    /\ UNCHANGED serverVars
    /\ UNCHANGED <<tls, ctx, cleanups, connOpen, peerCert, handshake, lock, reports>>

\* cleanup: the statistics are logged, cleanup returns.  On the first run
\* start returns and the exit hook is due, on the second the process ends.
CleanupReport ==
    /\ mpc = "report"
    /\ reports' = reports + 1
    /\ cleanups' = cleanups + 1
    /\ mpc' = IF cleanups = 0 THEN "returned" ELSE "exited"
    /\ UNCHANGED searchVars
    /\ UNCHANGED serverVars
    /\ UNCHANGED <<tls, ctx, listener, connOpen, peerCert, handshake, lock>>

\* atexit.register(self.cleanup, sock): cleanup runs again at process exit
AtExit ==
    /\ mpc = "returned"
    /\ mpc' = "cleanup"
    /\ UNCHANGED searchVars
    /\ UNCHANGED serverVars
    /\ UNCHANGED <<tls, ctx, listener, cleanups, connOpen, peerCert, handshake, lock, reports>>

---------------------------------------------------------------------------
(* StartSpec: a server is constructed, started, serves and shuts down *)

\* the TLS files of a server: sound without and with a CA file, certificate
\* file missing, certificate expired, key not matching
StartTlsInputs ==
    {GoodTls(""), GoodTls("pem"),
     [GoodTls("") EXCEPT !.cert = "missing"],
     [GoodTls("") EXCEPT !.not_valid_after = 0],
     [GoodTls("") EXCEPT !.pair_ok = FALSE]}

StartInit ==
    /\ file \in ServerFiles
    /\ config \in [reread_on_query : BOOLEAN, ssl_enabled : BOOLEAN,
                    max_workers : 1..NumConns, absent : ConfigGaps,
                    max_allowed_time_ms : {MaxAllowedTimeMs}]
    /\ args = ServerSearcherArgs(config.reread_on_query)
    /\ spc = "new"
    /\ searcher = BlankSearcher
    /\ query = <<>>
    /\ result = NoResult
    /\ loaded = file
    /\ shutdown_flag = FALSE
    /\ active_connections = {}
    /\ connection_stats = <<>>
    /\ pc = [c \in Conns |-> "backlog"]
    /\ peer = [c \in Conns |-> "open"]
    /\ inflight = [c \in Conns |-> <<>>]
    /\ sent = MaxBytes - StartBytes
    /\ buffer = [c \in Conns |-> <<>>]
    /\ query_part = [c \in Conns |-> <<>>]
    /\ response = [c \in Conns |-> ""]
    /\ writes = [c \in Conns |-> <<>>]
    /\ closeCalls = [c \in Conns |-> 0]
    /\ exit = [c \in Conns |-> ""]
    /\ rcvd = [c \in Conns |-> <<>>]
    /\ extracted = [c \in Conns |-> 0]
    /\ split = [c \in Conns |-> FALSE]
    /\ waited = [c \in Conns |-> FALSE]
    /\ warnings = [c \in Conns |-> 0]
    /\ tls \in IF config.ssl_enabled THEN StartTlsInputs ELSE {GoodTls("")}
    /\ config.absent \in OptionalOptions =>
           /\ config = [reread_on_query |-> FALSE, ssl_enabled |-> TRUE,
                        max_workers |-> 1, absent |-> config.absent,
                        max_allowed_time_ms |-> MaxAllowedTimeMs]
           /\ tls = GoodTls("")
           /\ file.state = "present"
    /\ ctx = NoContext
    /\ mpc = "new"
    /\ listener = "none"
    /\ cleanups = 0
    /\ connOpen = [c \in Conns |-> FALSE]
    /\ peerCert \in [Conns -> {"none", "good"}]
    /\ handshake = [c \in Conns |-> ""]
    /\ lock = "free"
    /\ reports = 0

\* CleanupCloseConn is no disjunct: the pool is drained before the lock is
\* taken, every session has discarded its connection by then and the for
\* loop of cleanup finds the set empty (SetEmptyWhenPoolDrained)
StartNext ==
    \/ ServerConstruct
    \/ StartListen
    \/ StartContext
    \/ AcceptLoopCheck
    \/ AcceptTimeout
    \/ \E c \in Conns : \E o \in HandshakeOutcomes : Accept(c, o)
    \/ CleanupBegin
    \/ CleanupDrain
    \/ CleanupAcquire
    \/ CleanupRelease
    \/ CleanupCloseSock
    \/ CleanupReport
    \/ AtExit
    \/ \E c \in Conns : HandleClientEnter(c)
    \/ \E c \in Conns : LoopCheck(c)
    \/ \E c \in Conns : \E n \in 1..MaxBytes : RecvData(c, n)
    \/ \E c \in Conns : RecvEOF(c)
    \/ \E c \in Conns : RecvTimeout(c)
    \/ \E c \in Conns : RecvReset(c)
    \/ \E c \in Conns : RecvSSLError(c)
    \/ \E c \in Conns : ProcessFrame(c)
    \/ \E c \in Conns : SendAll(c)
    \/ \E c \in Conns : ReleaseClose(c)
    \/ \E c \in Conns : ReleaseDiscard(c)
    \/ \E c \in Conns : \E b \in WireBytes : PeerSend(c, b)
    \/ \E c \in Conns : PeerClose(c)
    \/ \E c \in Conns : PeerReset(c)
    \/ \E c \in Conns : PeerTlsFault(c)
    \/ SignalHandler

StartSpec == StartInit /\ [][StartNext]_vars

---------------------------------------------------------------------------
(* CleanupSpec: cleanup() is called on a constructed server whose set     *)
(* holds connections, as test_cleanup_with_active_connections does        *)

CleanupInit ==
    /\ file \in ServerFiles
    /\ config \in [reread_on_query : BOOLEAN, ssl_enabled : BOOLEAN,
                    max_workers : 1..NumConns, absent : {<<>>},
                    max_allowed_time_ms : {MaxAllowedTimeMs}]
    /\ args = ServerSearcherArgs(config.reread_on_query)
    /\ NewSearcher(file, args).raised = ""
    /\ searcher = NewSearcher(file, args).obj
    /\ spc = "ready"
    /\ query = <<>>
    /\ result = NoResult
    /\ loaded = file
    /\ shutdown_flag = FALSE
    /\ active_connections \in SUBSET Conns
    /\ connection_stats = <<>>
    /\ pc = [c \in Conns |-> IF c \in active_connections THEN "tracked" ELSE "backlog"]
    /\ peer \in [Conns -> {"open", "reset"}]
    /\ \A c \in Conns : c \notin active_connections => peer[c] = "open"
    /\ inflight = [c \in Conns |-> <<>>]
    /\ sent = 0
    /\ buffer = [c \in Conns |-> <<>>]
    /\ query_part = [c \in Conns |-> <<>>]
    /\ response = [c \in Conns |-> ""]
    /\ writes = [c \in Conns |-> <<>>]
    /\ closeCalls = [c \in Conns |-> 0]
    /\ exit = [c \in Conns |-> ""]
    /\ rcvd = [c \in Conns |-> <<>>]
    /\ extracted = [c \in Conns |-> 0]
    /\ split = [c \in Conns |-> FALSE]
    /\ waited = [c \in Conns |-> FALSE]
    /\ warnings = [c \in Conns |-> 0]
    /\ tls = GoodTls("")
    /\ ctx = NoContext
    /\ mpc = "cleanup"
    /\ listener \in {"none", "listening"}
    /\ cleanups = 0
    /\ connOpen = [c \in Conns |-> c \in active_connections]
    /\ peerCert = [c \in Conns |-> "none"]
    /\ handshake = [c \in Conns |-> ""]
    /\ lock = "free"
    /\ reports = 0

CleanupNext ==
    \/ CleanupBegin
    \/ CleanupDrain
    \/ CleanupAcquire
    \/ \E c \in Conns : CleanupCloseConn(c)
    \/ CleanupRelease
    \/ CleanupCloseSock
    \/ CleanupReport

CleanupSpec == CleanupInit /\ [][CleanupNext]_vars

---------------------------------------------------------------------------
(* FrameSpec: every session has just cut one frame off its buffer; the    *)
(* frames hold whitespace, text and bytes that do not decode              *)

FrameAlphabet == {32, LF, 97, 169}

FrameInit ==
    /\ file \in ServerFiles
    /\ config \in [reread_on_query : BOOLEAN, ssl_enabled : {FALSE},
                    max_workers : {NumConns}, absent : {<<>>},
                    max_allowed_time_ms : {MaxAllowedTimeMs}]
    /\ args = ServerSearcherArgs(config.reread_on_query)
    /\ NewSearcher(file, args).raised = ""
    /\ searcher = NewSearcher(file, args).obj
    /\ spc = "ready"
    /\ query = <<>>
    /\ result = NoResult
    /\ loaded = file
    /\ shutdown_flag = FALSE
    /\ active_connections = Conns
    /\ connection_stats = <<>>
    /\ pc = [c \in Conns |-> "frame"]
    /\ peer = [c \in Conns |-> "open"]
    /\ inflight = [c \in Conns |-> <<>>]
    /\ sent = MaxBytes
    /\ buffer = [c \in Conns |-> <<>>]
    /\ query_part \in [Conns -> SeqsUpTo(FrameAlphabet, MaxFrameLen)]
    /\ response = [c \in Conns |-> ""]
    /\ writes = [c \in Conns |-> <<>>]
    /\ closeCalls = [c \in Conns |-> 0]
    /\ exit = [c \in Conns |-> ""]
    /\ rcvd = [c \in Conns |-> query_part[c] \o <<NUL>>]
    /\ extracted = [c \in Conns |-> 1]
    /\ split = [c \in Conns |-> FALSE]
    /\ waited = [c \in Conns |-> FALSE]
    /\ warnings = [c \in Conns |-> 0]
    /\ tls = GoodTls("")
    /\ ctx = NoContext
    /\ mpc = "accepting"
    /\ listener = "listening"
    /\ cleanups = 0
    /\ connOpen = [c \in Conns |-> TRUE]
    /\ peerCert = [c \in Conns |-> "none"]
    /\ handshake = [c \in Conns |-> "none"]
    /\ lock = "free"
    /\ reports = 0

FrameNext ==
    \/ \E c \in Conns : ProcessFrame(c)
    \/ \E c \in Conns : SendAll(c)

FrameSpec == FrameInit /\ [][FrameNext]_vars

---------------------------------------------------------------------------
(* Frames of a received byte stream, for stating the properties *)

\* the complete frames of a stream, in order
RECURSIVE FramesOf(_)
FramesOf(bs) ==
    LET i == Find(bs, NUL)
    IN  IF i = 0 THEN <<>>
        ELSE <<SubSeq(bs, 1, i - 1)>> \o FramesOf(SubSeq(bs, i + 1, Len(bs)))

\* the stream after its first k frames
RECURSIVE AfterFrames(_, _)
AfterFrames(bs, k) ==
    LET i == Find(bs, NUL)
    IN  IF k = 0 \/ i = 0 THEN bs
        ELSE AfterFrames(SubSeq(bs, i + 1, Len(bs)), k - 1)

\* the line the server owes a frame
LineFor(frame) == HandleFrame(searcher, file, frame).line

Decodes(frame) == Utf8Decode(frame).ok

InFrame(c) == pc[c] \in {"frame", "send"}

Ended(c) == pc[c] = "done"

\* the search of the frame raised an exception that is no decode error
SearchRaised(frame) ==
    /\ Decodes(frame)
    /\ Search(searcher, file, Strip(Utf8Decode(frame).str)).raised
           \notin {"", "UnicodeDecodeError"}

VerdictLines == {STRING_EXISTS, STRING_NOT_FOUND}

---------------------------------------------------------------------------
(* Properties of the session loop, under Spec *)

\* C1: when a session is about to wait for more data from its peer, every
\* complete frame it has received has been cut off the buffer and answered:
\* no terminator is left in the buffer at the recv call.
C1_FramesAnsweredBeforeWaiting ==
    \A c \in Conns : pc[c] = "recv" => ~HasFrame(buffer[c])

\* C2: however the bytes of a frame are split across receives and whatever
\* read timeouts occur between them, the buffer holds exactly the received
\* bytes that follow the frames cut off so far, the frame cut off is the frame
\* of the stream, and the first response is the line owed to the first frame.
C2_SplitIndependent ==
    \A c \in Conns :
        /\ buffer[c] = AfterFrames(rcvd[c], extracted[c])
        /\ extracted[c] >= 1 => query_part[c] = FramesOf(rcvd[c])[extracted[c]]
        /\ Len(writes[c]) >= 1 => writes[c][1] = LineFor(FramesOf(rcvd[c])[1])

\* a frame that arrived in two receives with a read timeout between them has
\* been answered
C2_Witness ==
    \E c \in Conns :
        /\ split[c] /\ waited[c]
        /\ extracted[c] = 1
        /\ writes[c] = <<STRING_EXISTS>>

\* C3 (as claimed): outside the handling of a frame, the number of writes on
\* a connection equals the number of frames cut off its buffer.
C3_ExactlyOneWritePerFrame ==
    \A c \in Conns :
        Len(writes[c]) = extracted[c] - (IF InFrame(c) THEN 1 ELSE 0)

\* C3 (amended): every write is one verdict line, there is never more than
\* one write per frame cut off, and exactly one once the frame is handled,
\* unless its search raised an exception that is no decode error: then
\* nothing is written for that frame and the loop is left.
C3_OneWritePerAnsweredFrame ==
    \A c \in Conns :
        /\ Len(writes[c]) =
               extracted[c] - (IF InFrame(c) \/ exit[c] = "error" THEN 1 ELSE 0)
        /\ exit[c] = "error" => SearchRaised(query_part[c])
        /\ \A k \in 1..Len(writes[c]) : writes[c][k] \in VerdictLines

\* one frame was answered, the search of the next one raised
C3_Witness ==
    \E c \in Conns :
        /\ exit[c] = "error"
        /\ extracted[c] = 2
        /\ Len(writes[c]) = 1

\* C4: on every connection the k-th write is the line owed to the k-th frame
\* of the bytes received on that connection.
C4_ResponsesInArrivalOrder ==
    \A c \in Conns :
        \A k \in 1..Len(writes[c]) :
            /\ k <= Len(FramesOf(rcvd[c]))
            /\ writes[c][k] = LineFor(FramesOf(rcvd[c])[k])

\* two frames with different verdicts answered in order while another session
\* is running
C4_Witness ==
    \E c, d \in Conns :
        /\ c # d
        /\ pc[d] \notin {"queued", "done"}
        /\ FramesOf(rcvd[c]) = << <<97>>, <<>> >>
        /\ writes[c] = <<STRING_EXISTS, STRING_NOT_FOUND>>

\* C5: every payload written is one of the two verdict lines, and once the
\* loop is left for any reason the session is in its release.
C5_OnlyVerdictLines ==
    \A c \in Conns :
        /\ \A k \in 1..Len(writes[c]) : writes[c][k] \in VerdictLines
        /\ exit[c] # "" => pc[c] \in {"finally", "discard", "done"}

\* a session whose search raised has ended with its connection closed
C5_Witness ==
    \E c \in Conns :
        /\ exit[c] = "error"
        /\ Ended(c)
        /\ closeCalls[c] = 1

\* C6: an empty frame is answered STRING NOT FOUND: its handling never raises
\* and the line written for it is never STRING EXISTS.
C6_EmptyFrameNotFound ==
    \A c \in Conns :
        /\ \A k \in 1..Len(writes[c]) :
               FramesOf(rcvd[c])[k] = <<>> => writes[c][k] = STRING_NOT_FOUND
        /\ (pc[c] = "send" /\ query_part[c] = <<>>) => response[c] = STRING_NOT_FOUND
        /\ exit[c] = "error" => query_part[c] # <<>>

\* an empty frame answered in reread mode against a file with an empty line
C6_Witness ==
    \E c \in Conns :
        /\ config.reread_on_query
        /\ file.state = "present"
        /\ FramesOf(rcvd[c]) = << <<>> >>
        /\ writes[c] = <<STRING_NOT_FOUND>>

\* C7: handling a frame that is no valid UTF-8 makes exactly one write,
\* STRING NOT FOUND, and leaves the session in its loop; only a reset of the
\* connection can end the session at that write.
C7_UndecodableFrameAnswered ==
    [][\A c \in Conns :
          /\ (pc[c] = "frame" /\ ~Decodes(query_part[c]) /\ pc'[c] # "frame")
                 => /\ pc'[c] = "send"
                    /\ response'[c] = STRING_NOT_FOUND
                    /\ exit'[c] = ""
                    /\ writes'[c] = writes[c]
          /\ (pc[c] = "send" /\ ~Decodes(query_part[c]) /\ pc'[c] # "send")
                 => /\ writes'[c] = Append(writes[c], STRING_NOT_FOUND)
                    /\ pc'[c] = "loop" \/ peer[c] = "reset"]_vars

\* an undecodable frame was answered and so was the frame after it
C7_Witness ==
    \E c \in Conns :
        /\ Len(writes[c]) = 2
        /\ ~Decodes(FramesOf(rcvd[c])[1])
        /\ writes[c][1] = STRING_NOT_FOUND
        /\ pc[c] = "loop"

\* C8: when every session has ended, the live-connection set is empty.
C8_SetEmptyAfterAllEnded ==
    (\A c \in Conns : Ended(c)) => active_connections = {}

\* all sessions have ended, each after it was in the set and served its peer
C8_Witness ==
    /\ \A c \in Conns : Ended(c) /\ rcvd[c] # <<>>
    /\ \E c \in Conns : Len(writes[c]) >= 1

\* C9: a session that has ended has left the live-connection set and close
\* was called on its connection exactly once.
C9_ClosedOnceOnEveryExit ==
    \A c \in Conns :
        Ended(c) => (c \notin active_connections /\ closeCalls[c] = 1)

---------------------------------------------------------------------------
(* Properties of the Searcher, under SearchSpec *)

\* the stripped lines of the file, cut at "\n" only
LinesByLF(f) ==
    LET lines == StripAll(DecodeAll(MmapSegments(f.bytes)))
    IN  {lines[i] : i \in 1..Len(lines)}

\* the stripped lines of the file, cut at "\n", "\r" and "\r\n"
LinesUniversal(f) ==
    LET lines == StripAll(TextLines(Utf8Decode(f.bytes).str))
    IN  {lines[i] : i \in 1..Len(lines)}

\* C10: under every algorithm and freshness mode, a non-empty query without
\* surrounding whitespace is found when it equals the trimmed text of a line
\* of the file and is not found when it equals none.
C10_FoundIffPresent ==
    (/\ spc = "searched"
     /\ file.state = "present"
     /\ query # <<>>
     /\ Strip(query) = query)
        => /\ query \in (LinesByLF(file) \cap LinesUniversal(file))
                  => result = Returned(TRUE)
           /\ query \notin (LinesByLF(file) \cup LinesUniversal(file))
                  => result = Returned(FALSE)

\* C11: the answer of a search is the answer the other algorithm gives for
\* the same file, freshness mode and query.
C11_AlgorithmsAgree ==
    (spc = "searched" /\ file.state = "present")
        => result = Search(
               NewSearcher(loaded,
                           [args EXCEPT !.algorithm = "",
                                        !.method = IF searcher.method = "linear"
                                                   THEN "binary" ELSE "linear"]).obj,
               file, query)

\* the lines of the file as the reread scan compares them: cut at newlines,
\* the trailing "\n" removed
RereadLines(f) ==
    LET lines == RStripNLAll(TextLines(Utf8Decode(f.bytes).str))
    IN  {lines[i] : i \in 1..Len(lines)}

\* the stripped lines a cached Searcher has stored from file f
CachedLines(f, mmap) == IF mmap THEN LinesByLF(f) ELSE LinesUniversal(f)

\* C12: in reread mode a search answers against the content the file has at
\* the time of the call, whatever it was at construction; in cached mode it
\* answers against the content the file had at construction, whatever it is
\* now.  (Queries are non-empty and carry no surrounding whitespace.)
C12_RereadSeesChange ==
    (/\ spc = "searched"
     /\ file.state = "present"
     /\ query # <<>>
     /\ Strip(query) = query)
        => IF searcher.reread_on_query
           THEN result = Returned(query \in RereadLines(file))
           ELSE result = Returned(query \in CachedLines(loaded, searcher.mmap))

\* the file was rewritten after construction: a reread engine finds a line
\* that was not in the file at construction
C12_Witness ==
    /\ spc = "searched"
    /\ searcher.reread_on_query
    /\ loaded.state = "present"
    /\ loaded # file
    /\ query = <<97>>
    /\ query \notin RereadLines(loaded)
    /\ result = Returned(TRUE)

\* C13: in every algorithm and freshness mode a query (its trailing newline
\* aside) is found exactly when it equals the whitespace-stripped text of a
\* line of the file; a query carrying surrounding spaces equals none.
C13_SameNormalisation ==
    (/\ spc = "searched"
     /\ file.state = "present"
     /\ loaded = file
     /\ RStripNL(query) # <<>>)
        => /\ RStripNL(query) \in (LinesByLF(file) \cap LinesUniversal(file))
                  => result = Returned(TRUE)
           /\ RStripNL(query) \notin (LinesByLF(file) \cup LinesUniversal(file))
                  => result = Returned(FALSE)

\* C14: a query that is empty once its trailing newline and surrounding
\* whitespace are trimmed is answered false.
C14_BlankQueryFalse ==
    (/\ spc = "searched"
     /\ file.state = "present"
     /\ Strip(RStripNL(query)) = <<>>)
        => result = Returned(FALSE)

\* C15: on a file that is missing or unreadable the constructor raises, in
\* both freshness modes: no Searcher exists on such a file.
C15_ConstructionFailsOnBadFile ==
    (file.state # "present" /\ spc # "new") => spc = "failed"

---------------------------------------------------------------------------
(* Properties of create_ssl_context, under SslSpec *)

\* C17: when the certificate file is missing the call fails with a not-found
\* error naming the certificate path, also when the key file is missing too;
\* when only the key file is missing the error names the key path; in both
\* cases no context is returned, no certificate was parsed and no
\* certificate chain was loaded.
C17_MissingFileNamed ==
    ctx.called =>
        /\ tls.cert = "missing"
               => ctx = ContextError("FileNotFoundError", "certfile", FALSE, FALSE)
        /\ (tls.cert # "missing" /\ tls.key = "missing")
               => ctx = ContextError("FileNotFoundError", "keyfile", FALSE, FALSE)
        /\ (tls.cert = "missing" \/ tls.key = "missing")
               => (~ctx.context /\ ~ctx.parsed /\ ~ctx.chain)

\* both files are missing and the error names the certificate
C17_Witness ==
    /\ ctx.called
    /\ tls.cert = "missing"
    /\ tls.key = "missing"
    /\ ctx.raised = "FileNotFoundError"
    /\ ctx.detail = "certfile"

\* C18: a context is returned only when not_valid_before <= now <=
\* not_valid_after; for a readable certificate outside that window the call
\* fails with the "expired or not yet valid" error before the pair is loaded;
\* a mismatched pair inside the window fails with another error.
C18_ContextOnlyInsideWindow ==
    ctx.called =>
        /\ ctx.context
               => (tls.not_valid_before <= tls.now /\ tls.now <= tls.not_valid_after)
        /\ (/\ tls.cert = "pem"
            /\ tls.key = "present"
            /\ (tls.now < tls.not_valid_before \/ tls.now > tls.not_valid_after))
               => /\ ctx.raised = "SSLError"
                  /\ ctx.detail = "Certificate is expired or not yet valid."
                  /\ ~ctx.chain
                  /\ ~ctx.context
        /\ (/\ tls.cert = "pem"
            /\ tls.key = "present"
            /\ tls.not_valid_before <= tls.now
            /\ tls.now <= tls.not_valid_after
            /\ ~tls.pair_ok)
               => /\ ctx.raised # ""
                  /\ ~ctx.context
                  /\ ctx.detail # "Certificate is expired or not yet valid."

\* a certificate that is not yet valid was refused, with a key that does not
\* match it
C18_Witness ==
    /\ ctx.called
    /\ tls.now < tls.not_valid_before
    /\ ~tls.pair_ok
    /\ ctx.detail = "Certificate is expired or not yet valid."
    /\ ~ctx.chain

---------------------------------------------------------------------------
(* Properties of the worker pool, under StartSpec *)

\* C20: the number of sessions executing never exceeds the worker ceiling; a
\* dispatched connection stays queued until it starts, and it starts only
\* when fewer sessions than the ceiling are executing.
C20_WorkerCeiling ==
    [][/\ Cardinality(Executing') <= config.max_workers
       /\ \A c \in Conns :
              pc[c] = "queued"
                  => \/ pc'[c] = "queued"
                     \/ /\ pc'[c] = "loop"
                        /\ Cardinality(Executing) < config.max_workers]_vars

\* with one worker, a session runs after the other session was answered and
\* has ended
C20_Witness ==
    \E c, d \in Conns :
        /\ config.max_workers = 1
        /\ Ended(c)
        /\ Len(writes[c]) >= 1
        /\ pc[d] = "recv"

---------------------------------------------------------------------------
(* Properties of start and the acceptor, under StartSpec *)

\* C16: when create_ssl_context has failed, the listening socket was never
\* bound.
C16_NoBindBeforeContextFailure ==
    (ctx.called /\ ctx.raised # "") => listener = "none"

Dispatched(c) == pc[c] = "queued" \/ c \in Executing \/ Ended(c)

\* C19: with TLS enabled, a connection that was dispatched, or is in the
\* live-connection set, had a successful handshake and, when a CA file is
\* configured, a verified peer certificate; a connection whose handshake
\* failed is refused; a refused connection is closed, is not in the set and
\* no session ever read from it or wrote to it.
C19_OnlyVerifiedPeersServed ==
    \A c \in Conns :
        /\ (config.ssl_enabled /\ (Dispatched(c) \/ c \in active_connections))
               => /\ handshake[c] = "ok"
                  /\ tls.cafile # "" => peerCert[c] = "good"
        /\ handshake[c] \in {"SSLError", "OSError"} => pc[c] = "refused"
        /\ pc[c] = "refused"
               => /\ c \notin active_connections
                  /\ ~connOpen[c]
                  /\ rcvd[c] = <<>>
                  /\ writes[c] = <<>>
                  /\ exit[c] = ""

\* with a CA file configured, a peer without certificate was refused and a
\* peer with a verified certificate was served
C19_Witness ==
    \E c, d \in Conns :
        /\ config.ssl_enabled
        /\ tls.cafile # ""
        /\ peerCert[c] = "none"
        /\ pc[c] = "refused"
        /\ peerCert[d] = "good"
        /\ Len(writes[d]) >= 1

---------------------------------------------------------------------------
(* The worker pool's queue, shutdown and cleanup *)

\* under StartSpec the for loop of cleanup has nothing to close
SetEmptyWhenPoolDrained ==
    mpc \in {"lock", "closing", "sock", "report"} => active_connections = {}

\* every worker of the pool is busy
Saturated == Cardinality(Executing) >= config.max_workers

\* C21: while every worker is busy the acceptor takes no connection out of
\* the listen backlog, so no accepted connection waits inside the process
\* for a worker beyond the pool's queueing policy.
C21_SaturatedPoolStopsAccepting ==
    [][Saturated => \A c \in Conns : pc[c] = "backlog" => pc'[c] # "queued"]_vars

\* C22: once the shutdown flag is set no connection leaves the backlog, and
\* a session that checks the flag leaves its loop.
C22_NoAcceptAfterFlag ==
    [][shutdown_flag =>
          /\ \A c \in Conns : pc[c] = "backlog" => pc'[c] = "backlog"
          /\ \A c \in Conns : pc[c] = "loop" => pc'[c] \in {"loop", "finally"}]_vars

\* C23: when the sessions cleanup still waits for are all inside a search,
\* cleanup can go on without any of these searches ending.
C23_DrainNotBoundBySearch ==
    (/\ mpc = "drain"
     /\ Executing # {}
     /\ \A c \in Executing : pc[c] = "frame"
     /\ \A c \in Conns : pc[c] # "queued")
        => ENABLED CleanupDrain

\* the connections that were in the set when cleanup was called
Tracked == {c \in Conns : pc[c] = "tracked"}

\* C24: when cleanup has left its for loop the set is empty and every
\* connection that was in it has been closed exactly once; no connection is
\* ever closed twice.
C24_CleanupClosesEveryTracked ==
    /\ \A c \in Conns : closeCalls[c] <= 1
    /\ mpc \in {"sock", "report", "returned"} =>
           /\ active_connections = {}
           /\ \A c \in Tracked : closeCalls[c] = 1 /\ ~connOpen[c]

\* the configuration lacks a section or an option the server cannot do
\* without
RequiredGap(cfg) == cfg.absent # <<>> /\ cfg.absent \notin OptionalOptions

\* C25: when a required section or option is missing, construction ends the
\* process with status 1: the Searcher is never built, no socket is bound,
\* no TLS context is made and no connection leaves the backlog.
C25_MissingConfigRefusesStart ==
    (RequiredGap(config) /\ mpc # "new") =>
        /\ mpc = "exit_1"
        /\ spc = "new" /\ searcher = BlankSearcher
        /\ listener = "none"
        /\ ~ctx.called
        /\ \A c \in Conns : pc[c] = "backlog" /\ ~connOpen[c]

\* an option of a present section is missing and the process has exited
C25_Witness ==
    /\ Len(config.absent) = 2
    /\ RequiredGap(config)
    /\ mpc = "exit_1"

\* the session of c met a failure: reset or broken pipe, TLS error on read,
\* an exception of the search, or a frame that does not decode
Failed(c) ==
    \/ exit[c] \in {"reset", "ssl", "error"}
    \/ \E k \in 1..(extracted[c] - (IF pc[c] = "frame" THEN 1 ELSE 0)) :
           ~Decodes(FramesOf(rcvd[c])[k])

\* a session that has left its loop did so for a reason of its own (its
\* peer may have reset the connection since)
OwnExit(d) ==
    /\ exit[d] = "shutdown" => shutdown_flag
    /\ exit[d] = "eof" => peer[d] \in {"closed", "reset"}
    /\ exit[d] = "reset" => peer[d] = "reset"
    /\ exit[d] = "ssl" => peer[d] \in {"tlserr", "reset"}
    /\ exit[d] = "error" => SearchRaised(query_part[d])
    /\ pc[d] \in {"finally", "discard", "done"} => exit[d] # ""

\* C26: when a session has failed, every other session is in the set as long
\* as it runs, holds in its buffer exactly the bytes received after its last
\* cut frame, has had each handled frame answered with the line owed to it,
\* and has ended only for a reason of its own; the accept loop goes on
\* unless shutdown was asked for.
C26_FailureEndsOnlyItsSession ==
    \A c \in Conns : Failed(c) =>
        /\ ~shutdown_flag => mpc \in {"accept", "accepting"} /\ listener = "listening"
        /\ \A d \in Conns \ {c} :
               /\ (d \in active_connections) = (d \in Executing)
               /\ d \in Executing => buffer[d] = AfterFrames(rcvd[d], extracted[d])
               /\ Len(writes[d]) =
                      extracted[d] - (IF InFrame(d) \/ exit[d] = "error" THEN 1 ELSE 0)
               /\ \A k \in 1..Len(writes[d]) :
                      writes[d][k] = LineFor(FramesOf(rcvd[d])[k])
               /\ OwnExit(d)

\* one session has ended on an exception of its search, another one, still
\* in the set, is about to send the verdict of its frame
C26_Witness ==
    \E c, d \in Conns :
        /\ c # d
        /\ exit[c] = "error" /\ Ended(c)
        /\ d \in active_connections
        /\ pc[d] = "send"
        /\ response[d] = LineFor(FramesOf(rcvd[d])[1])

\* C29: the shutdown flag never goes from true to false, whatever step is
\* taken: a signal, delivered once or again, a session step, a cleanup step.
C29_FlagNeverReset ==
    [][shutdown_flag => shutdown_flag']_vars

\* the accept loop was left on a signal, cleanup has run twice and the
\* process has ended with the flag still set
C29_Witness ==
    /\ shutdown_flag
    /\ cleanups = 2
    /\ mpc = "exited"

\* the frames of c whose search has completed and was recorded
RecordedFrames(c) ==
    {k \in 1..(extracted[c] - (IF pc[c] = "frame" THEN 1 ELSE 0)) :
        HandleFrame(searcher, file, FramesOf(rcvd[c])[k]).counted}

RECURSIVE SumOfDurations(_, _)
SumOfDurations(c, ks) ==
    IF ks = {} THEN 0
    ELSE LET k == CHOOSE x \in ks : TRUE
         IN  DurationOf(FramesOf(rcvd[c])[k]) + SumOfDurations(c, ks \ {k})

RECURSIVE CountFrom(_, _)
CountFrom(cs, a) ==
    IF cs = {} THEN 0
    ELSE LET c == CHOOSE x \in cs : TRUE
         IN  (IF AddressOf(c) = a THEN Cardinality(RecordedFrames(c)) ELSE 0)
                 + CountFrom(cs \ {c}, a)

RECURSIVE TimeFrom(_, _)
TimeFrom(cs, a) ==
    IF cs = {} THEN 0
    ELSE LET c == CHOOSE x \in cs : TRUE
         IN  (IF AddressOf(c) = a THEN SumOfDurations(c, RecordedFrames(c)) ELSE 0)
                 + TimeFrom(cs \ {c}, a)

\* C30: the map holds an entry exactly for the addresses with a completed
\* search; its count is the number of searches completed for frames from
\* that address and its total time the sum of their durations.
C30_StatisticsCountEverySearch ==
    /\ DOMAIN connection_stats =
           {AddressOf(c) : c \in {x \in Conns : RecordedFrames(x) # {}}}
    /\ \A a \in DOMAIN connection_stats :
           /\ connection_stats[a].count = CountFrom(Conns, a)
           /\ connection_stats[a].total_time = TimeFrom(Conns, a)

\* two sessions have each had a search recorded, one of them two searches
C30_Witness ==
    /\ \A c \in Conns : RecordedFrames(c) # {}
    /\ \E c \in Conns : Cardinality(RecordedFrames(c)) = 2

\* no socket of a connection is shut down or closed, written to or read from
\* in this step
NoSocketCall ==
    /\ closeCalls' = closeCalls
    /\ connOpen' = connOpen
    /\ writes' = writes
    /\ rcvd' = rcvd

\* C27: a step taken while the lock is held makes no socket call.
C27_NoSocketCallUnderLock ==
    [][lock # "free" => NoSocketCall]_vars

\* C28: the pool is drained before connections are closed, the set is empty
\* when the statistics are logged, and the listening socket is closed only
\* after the statistics have been logged.
C28_StatisticsBeforeListenerRelease ==
    /\ mpc \in {"lock", "closing", "sock", "report"} =>
           shutdown_flag /\ Executing = {}
    /\ reports >= 1 => active_connections = {}
    /\ listener = "closed" => reports >= 1

---------------------------------------------------------------------------
(* Slow queries, timeouts, the set and the second run of cleanup *)

\* the recorded frames of c whose search took longer than the ceiling
SlowFrames(c) ==
    {k \in RecordedFrames(c) :
        DurationOf(FramesOf(rcvd[c])[k]) > config.max_allowed_time_ms}

\* C31: a warning is logged for exactly the searches that exceeded the
\* ceiling; such a frame gets the one line owed to it like any other frame
\* (it is written, or about to be, or the peer has reset the connection),
\* and the session ends only for a reason of its own.
C31_SlowQueryStillAnswered ==
    \A c \in Conns :
        /\ warnings[c] = Cardinality(SlowFrames(c))
        /\ \A k \in SlowFrames(c) :
               /\ k <= Len(writes[c]) => writes[c][k] = LineFor(FramesOf(rcvd[c])[k])
               /\ k > Len(writes[c]) =>
                      k = extracted[c] /\ (pc[c] = "send" \/ exit[c] = "reset")
        /\ OwnExit(c)

\* the first frame of a session was slow and answered, and the session has
\* answered the next frame too
C31_Witness ==
    \E c \in Conns :
        /\ 1 \in SlowFrames(c)
        /\ warnings[c] = 1
        /\ Len(writes[c]) = 2

\* C32: the answer of a search is the answer a Searcher gives that was built
\* on the same file with the same arguments but reads it through the other
\* path (memory mapping available or not).
C32_MmapAndFallbackAgree ==
    (spc = "searched" /\ file.state = "present")
        => result = Search(
               NewSearcher(loaded, [args EXCEPT !.mmap_ok = ~args.mmap_ok]).obj,
               file, query)

\* C34: a Searcher that exists has, after any searches and rewrites of the
\* file, the fields its construction gave it: the method is the algorithm
\* argument when given and the method argument otherwise, the freshness mode
\* is the one passed, in reread mode both line lists are empty, in cached
\* mode they are the lines of the file as it was at construction.
C34_SearchLeavesEngineUnchanged ==
    spc \in {"ready", "searched"} =>
        /\ searcher = NewSearcher(loaded, args).obj
        /\ searcher.method =
               (IF args.algorithm \in Methods THEN args.algorithm ELSE args.method)
        /\ searcher.reread_on_query = args.reread_on_query
        /\ args.reread_on_query => searcher.data = <<>> /\ searcher.sorted_data = <<>>

\* a cached binary Searcher, built with an algorithm argument that overrides
\* its method argument on a file whose lines are not in sorted order, has
\* been searched after the file was rewritten
C34_Witness ==
    /\ spc = "searched"
    /\ file # loaded
    /\ args.method = "linear" /\ args.algorithm = "binary"
    /\ ~args.reread_on_query
    /\ searcher.data # searcher.sorted_data

\* the whitespace bytes of ASCII
AsciiSpace == {9, 10, 11, 12, 13, 32}

\* f is whitespace bytes, then the bytes i..j of it, then whitespace bytes
CoreAt(f, i, j) ==
    \A n \in 1..Len(f) : (n < i \/ n > j) => f[n] \in AsciiSpace

\* the two frames differ at most in leading and trailing whitespace
SameUpToOuterWhitespace(f, g) ==
    \E i \in 1..(Len(f) + 1), j \in 0..Len(f), k \in 1..(Len(g) + 1), l \in 0..Len(g) :
        /\ CoreAt(f, i, j)
        /\ CoreAt(g, k, l)
        /\ SubSeq(f, i, j) = SubSeq(g, k, l)

\* C35: two sessions whose frames differ at most in leading and trailing
\* whitespace, once both have handled their frame, hold the same verdict
\* line, or their searches have both raised.
C35_OuterWhitespaceIgnored ==
    \A c, d \in Conns :
        (/\ pc[c] # "frame" /\ pc[d] # "frame"
         /\ SameUpToOuterWhitespace(query_part[c], query_part[d]))
            => response[c] = response[d] /\ exit[c] = exit[d]

\* a frame of text and the same text with whitespace before and after it
\* have both been answered that the string exists
C35_Witness ==
    \E c, d \in Conns :
        /\ query_part[c] = <<97>>
        /\ Len(query_part[d]) = 2
        /\ SameUpToOuterWhitespace(query_part[c], query_part[d])
        /\ writes[c] = <<STRING_EXISTS>>
        /\ writes[d] = <<STRING_EXISTS>>

\* C33: a read that returns nothing and leaves the session in its loop (a
\* timeout) changes neither the buffer nor the writes of the session; a
\* zero-length read takes the session out of its loop, and from then on
\* nothing is read from or written to the connection and the session only
\* moves on through its release steps to its end.
C33_TimeoutWaitsEofCloses ==
    [][\A c \in Conns :
          /\ (pc[c] = "recv" /\ pc'[c] = "loop" /\ rcvd'[c] = rcvd[c])
                 => /\ buffer'[c] = buffer[c]
                    /\ writes'[c] = writes[c]
                    /\ exit'[c] = ""
          /\ (exit[c] # "eof" /\ exit'[c] = "eof")
                 => /\ pc[c] = "recv" /\ pc'[c] = "finally"
                    /\ peer[c] = "closed" /\ inflight[c] = <<>>
          /\ exit[c] = "eof"
                 => /\ exit'[c] = "eof"
                    /\ rcvd'[c] = rcvd[c]
                    /\ writes'[c] = writes[c]
                    /\ pc'[c] \in {"finally", "discard", "done"}]_vars

\* a session has waited through a timeout with a partial frame in its
\* buffer, then read end of file and ended, the partial frame unanswered
C33_Witness ==
    \E c \in Conns :
        /\ waited[c]
        /\ exit[c] = "eof"
        /\ Ended(c)
        /\ buffer[c] # <<>>
        /\ writes[c] = <<>>

\* C36: cleanup holds the lock neither while it waits for the pool nor while
\* any session is still queued or running; a session at its registration,
\* at the statistics update or at its release step always finds the lock
\* free, and while cleanup waits for the pool some session can take a step
\* or the wait is over.
C36_NoDeadlockWithCleanup ==
    /\ mpc \in {"cleanup", "drain", "lock"} => lock = "free"
    /\ lock # "free" => Executing = {} /\ \A c \in Conns : pc[c] # "queued"
    /\ \A c \in Conns : pc[c] = "discard" => ENABLED ReleaseDiscard(c)
    /\ mpc = "drain" =>
           \/ ENABLED CleanupDrain
           \/ \E c \in Conns :
                  \/ ENABLED HandleClientEnter(c) \/ ENABLED LoopCheck(c)
                  \/ ENABLED RecvTimeout(c) \/ ENABLED RecvEOF(c)
                  \/ ENABLED RecvReset(c) \/ ENABLED RecvSSLError(c)
                  \/ (\E n \in 1..MaxBytes : ENABLED RecvData(c, n))
                  \/ ENABLED ProcessFrame(c) \/ ENABLED SendAll(c)
                  \/ ENABLED ReleaseClose(c) \/ ENABLED ReleaseDiscard(c)

\* cleanup waits for the pool while a session is at its release step
C36_Witness ==
    /\ mpc = "drain"
    /\ \E c \in Conns : pc[c] = "discard"

\* the session of c found the flag set at its first test: it was dispatched
\* and had not read anything when shutdown began
NeverServed(c) == exit[c] = "shutdown" /\ rcvd[c] = <<>> /\ ~waited[c]

\* C37: once cleanup's wait for the pool is over no connection is left
\* queued; a session that found the flag set before its first read has read
\* and written nothing, and when it has ended its connection is closed, once,
\* and out of the set.
C37_QueuedConnectionNotLeaked ==
    /\ mpc \in {"lock", "closing", "sock", "report", "returned", "exited"} =>
           \A c \in Conns : pc[c] \in {"backlog", "refused", "done"}
    /\ \A c \in Conns : NeverServed(c) =>
           /\ writes[c] = <<>> /\ extracted[c] = 0
           /\ Ended(c) =>
                  /\ closeCalls[c] = 1 /\ ~connOpen[c]
                  /\ c \notin active_connections

\* the second run of cleanup, on the exit path, is under way
SecondRun == cleanups = 1 /\ mpc \in {"cleanup", "drain", "lock", "closing", "sock", "report"}

\* C38: once cleanup has run, no step changes the set of live connections,
\* the statistics, the flag, the close calls made on any connection, the
\* connections' descriptors or the listener; and the second run is never
\* stuck: at each of its steps the next one can be taken, up to its return.
C38_CleanupIdempotent ==
    /\ [][cleanups >= 1 =>
             UNCHANGED <<active_connections, connection_stats, shutdown_flag,
                         closeCalls, connOpen, listener>>]_vars
    /\ [](SecondRun =>
             \/ ENABLED CleanupBegin \/ ENABLED CleanupDrain
             \/ ENABLED CleanupAcquire \/ ENABLED CleanupRelease
             \/ ENABLED CleanupCloseSock \/ ENABLED CleanupReport)

\* cleanup has run twice after a session that answered a query was closed
C38_Witness ==
    /\ cleanups = 2
    /\ reports = 2
    /\ connection_stats # <<>>
    /\ \E c \in Conns : closeCalls[c] = 1 /\ Ended(c)

\* C39: every connection in the set belongs to a session that is running on
\* a pool worker, past its insert step and not past its release step; a
\* connection waiting for a worker, not yet accepted or already released is
\* not in the set; and the set is never larger than the number of workers.
C39_SetWithinRunningSessions ==
    /\ active_connections \subseteq Executing
    /\ \A c \in Conns :
           pc[c] \in {"backlog", "refused", "queued", "done"} =>
               c \notin active_connections
    /\ Cardinality(active_connections) <= config.max_workers

\* one worker: a connection is in the set while another waits for the worker
C39_Witness ==
    /\ config.max_workers = 1
    /\ \E c, d \in Conns :
           /\ c \in active_connections /\ pc[c] = "recv"
           /\ pc[d] = "queued"

====
